---- MODULE Spec2Model ----
(***************************************************************************)
(* Model of core/src/image.js (class Image): the metrics extractors        *)
(* getMetricsFromBytes and getMetricsFromSvgString, the sizing step        *)
(* setImgSize and the resize re-derivation fixAfterResize.                 *)
(*                                                                         *)
(* JavaScript strings are sequences of one-character strings, byte arrays  *)
(* are sequences of 0..255, and JavaScript values are tagged records       *)
(* (undefined, number, NaN, infinity, string).                             *)
(***************************************************************************)
EXTENDS Integers, Sequences, FiniteSets, TLC

VARIABLES img, config, response, pc, call, bytes, input, loc, ar, outcome, pre

vars == <<img, config, response, pc, call, bytes, input, loc, ar, outcome, pre>>

(***************************************************************************)
(* JavaScript strings                                                      *)
(***************************************************************************)
MinOf(S) == CHOOSE x \in S : \A y \in S : x <= y

Clamp(x, lo, hi) == IF x < lo THEN lo ELSE IF x > hi THEN hi ELSE x

\* String.prototype.indexOf(pat, from): 0-based position, -1 when not found.
IndexOf(s, pat, from) ==
    LET lo == IF from < 0 THEN 0 ELSE from
        c  == {i \in lo..(Len(s) - Len(pat)) : SubSeq(s, i + 1, i + Len(pat)) = pat}
    IN  IF c = {} THEN -1 ELSE MinOf(c)

\* String.prototype.substring(a, b): both ends clamped, swapped when a > b.
Substring(s, a, b) ==
    LET x == Clamp(a, 0, Len(s))
        y == Clamp(b, 0, Len(s))
    IN  IF x <= y THEN SubSeq(s, x + 1, y) ELSE SubSeq(s, y + 1, x)

\* String.prototype.substr(start, length), start >= 0.
Substr(s, start, length) ==
    IF start >= Len(s) \/ length <= 0 THEN <<>>
    ELSE SubSeq(s, start + 1, Clamp(start + length, 0, Len(s)))

DigitChars == <<"0","1","2","3","4","5","6","7","8","9">>

IsDigit(c) == \E i \in 1..10 : DigitChars[i] = c

DigitVal(c) == (CHOOSE i \in 1..10 : DigitChars[i] = c) - 1

RECURSIVE NatToStr(_)
NatToStr(n) ==
    IF n < 10 THEN <<DigitChars[n + 1]>>
    ELSE NatToStr(n \div 10) \o <<DigitChars[(n % 10) + 1]>>

RECURSIVE DigitsToNat(_)
DigitsToNat(s) ==
    IF s = <<>> THEN 0
    ELSE 10 * DigitsToNat(SubSeq(s, 1, Len(s) - 1)) + DigitVal(s[Len(s)])

RECURSIVE Pow10(_)
Pow10(k) == IF k = 0 THEN 1 ELSE 10 * Pow10(k - 1)

(***************************************************************************)
(* JavaScript values                                                       *)
(***************************************************************************)
Undefined == [t |-> "undefined"]

NaN == [t |-> "nan"]

Inf(neg) == [t |-> "inf", neg |-> neg]

Str(s) == [t |-> "str", s |-> s]

Abs(x) == IF x < 0 THEN -x ELSE x

RECURSIVE Gcd(_, _)
Gcd(a, b) == IF b = 0 THEN a ELSE Gcd(b, a % b)

\* The number n/d (d # 0), kept in lowest terms with a positive denominator.
Rat(n, d) ==
    LET g == Gcd(Abs(n), Abs(d))
        s == IF d < 0 THEN -1 ELSE 1
    IN  [t |-> "num", n |-> (s * n) \div g, d |-> Abs(d) \div g]

Num(n) == [t |-> "num", n |-> n, d |-> 1]

\* ToBoolean: undefined, 0, NaN and "" are falsy.
Truthy(v) ==
    CASE v.t = "undefined" -> FALSE
      [] v.t = "nan"       -> FALSE
      [] v.t = "inf"       -> TRUE
      [] v.t = "num"       -> v.n # 0
      [] v.t = "str"       -> v.s # <<>>

\* The number whose integer digits are ip and fraction digits fp, NaN when
\* either holds another character or both are empty.
DecimalOf(ip, fp, neg) ==
    IF /\ \A i \in 1..Len(ip) : IsDigit(ip[i])
       /\ \A i \in 1..Len(fp) : IsDigit(fp[i])
       /\ Len(ip) + Len(fp) > 0
    THEN Rat((IF neg THEN -1 ELSE 1) * (DigitsToNat(ip) * Pow10(Len(fp)) + DigitsToNat(fp)),
             Pow10(Len(fp)))
    ELSE NaN

\* The unsigned literal body, split at the decimal point found at dot.
SplitDecimal(body, dot, neg) ==
    IF dot = -1 THEN DecimalOf(body, <<>>, neg)
    ELSE DecimalOf(SubSeq(body, 1, dot), SubSeq(body, dot + 2, Len(body)), neg)

Unsigned(s) == IF s[1] \in {"-", "+"} THEN Tail(s) ELSE s

ParseDecimal(body, neg) == SplitDecimal(body, IndexOf(body, <<".">>, 0), neg)

\* StringToNumber for decimal literals: optional sign, digits, optional
\* fraction; "" is 0 and anything else is NaN.
StringToNumber(s) ==
    IF s = <<>> THEN Num(0) ELSE ParseDecimal(Unsigned(s), s[1] = "-")

\* ToNumber
ToNumber(v) ==
    CASE v.t = "undefined" -> NaN
      [] v.t = "str"       -> StringToNumber(v.s)
      [] OTHER             -> v

\* x * y on numbers
MulNum(x, y) ==
    CASE x.t = "nan" \/ y.t = "nan" -> NaN
      [] x.t = "inf" /\ y.t = "inf" -> Inf(x.neg # y.neg)
      [] x.t = "inf" -> IF y.n = 0 THEN NaN ELSE Inf(x.neg # (y.n < 0))
      [] y.t = "inf" -> IF x.n = 0 THEN NaN ELSE Inf(y.neg # (x.n < 0))
      [] OTHER -> Rat(x.n * y.n, x.d * y.d)

\* x / y on numbers
DivNum(x, y) ==
    CASE x.t = "nan" \/ y.t = "nan" -> NaN
      [] x.t = "inf" /\ y.t = "inf" -> NaN
      [] x.t = "inf" -> Inf(x.neg # (y.n < 0))
      [] y.t = "inf" -> Num(0)
      [] y.n = 0 -> IF x.n = 0 THEN NaN ELSE Inf(x.n < 0)
      [] OTHER -> Rat(x.n * y.d, x.d * y.n)

\* x - y on numbers
SubNum(x, y) ==
    CASE x.t = "nan" \/ y.t = "nan" -> NaN
      [] x.t = "inf" /\ y.t = "inf" -> IF x.neg = y.neg THEN NaN ELSE x
      [] x.t = "inf" -> x
      [] y.t = "inf" -> Inf(~y.neg)
      [] OTHER -> Rat(x.n * y.d - y.n * x.d, x.d * y.d)

\* The operators *, / and - convert both operands with ToNumber.
Mul(a, b) == MulNum(ToNumber(a), ToNumber(b))

Div(a, b) == DivNum(ToNumber(a), ToNumber(b))

Sub(a, b) == SubNum(ToNumber(a), ToNumber(b))

\* The digits after the decimal point of r/d (0 <= r < d), at most k of them;
\* a final "~" stands for the digits of a longer expansion.
RECURSIVE FracDigits(_, _, _)
FracDigits(r, d, k) ==
    IF r = 0 THEN <<>>
    ELSE IF k = 0 THEN <<"~">>
    ELSE <<DigitChars[((10 * r) \div d) + 1]>> \o FracDigits((10 * r) % d, d, k - 1)

MaxFracDigits == 6

\* Number::toString
NumberToString(v) ==
    CASE v.t = "nan" -> <<"N","a","N">>
      [] v.t = "inf" -> (IF v.neg THEN <<"-">> ELSE <<>>) \o <<"I","n","f","i","n","i","t","y">>
      [] v.t = "num" ->
            (IF v.n < 0 THEN <<"-">> ELSE <<>>)
                \o NatToStr(Abs(v.n) \div v.d)
                \o (IF Abs(v.n) % v.d = 0 THEN <<>>
                    ELSE <<".">> \o FracDigits(Abs(v.n) % v.d, v.d, MaxFracDigits))

\* ToString
ToStringJS(v) ==
    CASE v.t = "undefined" -> <<"u","n","d","e","f","i","n","e","d">>
      [] v.t = "str"       -> v.s
      [] OTHER             -> NumberToString(v)

\* a + b with a string operand: concatenation.
Concat(a, b) == Str(ToStringJS(a) \o ToStringJS(b))

(***************************************************************************)
(* Util (util.js): ByteCursor, Base64Decoder, LegacyUrlMetricsParser       *)
(***************************************************************************)
Skip(b, n) == SubSeq(b, n + 1, Len(b))

\* Util.readInt32 on the first four bytes: big-endian unsigned value.
UInt32BE(b) == b[1] * 16777216 + b[2] * 65536 + b[3] * 256 + b[4]

\* The four bytes of the unsigned 32-bit value n, most significant first.
U32Bytes(n) == <<n \div 16777216, (n \div 65536) % 256, (n \div 256) % 256, n % 256>>

\* readInt32 gives the value t: decided on the bytes, since a value read off
\* a chunk boundary may need all 32 bits.
ReadsAs(b, t) == SubSeq(b, 1, 4) = U32Bytes(t)

\* Util.readBytes / readInt32 / readByte, one after the other, of the given
\* sizes: each read consumes its bytes, and a read of more bytes than remain
\* fails with OutOfBounds and consumes nothing.
RECURSIVE ReadAll(_, _)
ReadAll(b, sizes) ==
    IF sizes = <<>> THEN [ok |-> TRUE, bytes |-> b]
    ELSE IF Len(b) < Head(sizes) THEN [ok |-> FALSE, bytes |-> b]
    ELSE ReadAll(Skip(b, Head(sizes)), Tail(sizes))

B64Alphabet ==
    <<"A","B","C","D","E","F","G","H","I","J","K","L","M","N","O","P","Q","R","S","T",
      "U","V","W","X","Y","Z","a","b","c","d","e","f","g","h","i","j","k","l","m","n",
      "o","p","q","r","s","t","u","v","w","x","y","z","0","1","2","3","4","5","6","7",
      "8","9","+","/">>

IsB64(c) == \E i \in 1..64 : B64Alphabet[i] = c

B64Val(c) == (CHOOSE i \in 1..64 : B64Alphabet[i] = c) - 1

\* The base64 text without its trailing padding (at most two "=").
StripPadding(s) ==
    LET n == Len(s)
    IN  IF n >= 2 /\ s[n] = "=" /\ s[n - 1] = "=" THEN SubSeq(s, 1, n - 2)
        ELSE IF n >= 1 /\ s[n] = "=" THEN SubSeq(s, 1, n - 1)
        ELSE s

\* The value of the i-th character of s, 0 past its end.
Sextet(s, i) == IF i <= Len(s) THEN B64Val(s[i]) ELSE 0

\* The j-th byte the characters of s encode: byte r of group g is spread over
\* the characters r + 1 and r + 2 of the group.
B64Byte(s, j) ==
    LET g == (j - 1) \div 3
        r == (j - 1) % 3
        x == Sextet(s, 4 * g + r + 1) * 64 + Sextet(s, 4 * g + r + 2)
    IN  CASE r = 0 -> x \div 16
          [] r = 1 -> (x \div 4) % 256
          [] r = 2 -> x % 256

\* Decodes the groups of four characters of s from the left until max bytes
\* are out; a character outside the alphabet in a decoded group, or a last
\* group of one character, is InvalidEncoding.
B64Groups(s, max) ==
    LET used == SubSeq(s, 1, Clamp(4 * ((max + 2) \div 3), 0, Len(s)))
        n    == (Len(used) * 3) \div 4
    IN  IF Len(used) % 4 = 1 \/ \E i \in 1..Len(used) : ~IsB64(used[i])
        THEN [ok |-> FALSE, bytes |-> <<>>]
        ELSE [ok |-> TRUE, bytes |-> [j \in 1..Clamp(max, 0, n) |-> B64Byte(used, j)]]

\* Util.b64ToByteArray(b64String, len)
b64ToByteArray(s, max) == B64Groups(StripPadding(s), max)

\* The pieces of s between occurrences of the character sep.
RECURSIVE Split(_, _)
Split(s, sep) ==
    LET i == IndexOf(s, <<sep>>, 0)
    IN  IF i = -1 THEN <<s>>
        ELSE <<SubSeq(s, 1, i)>> \o Split(Skip(s, i + 1), sep)

\* The value of key k among the "k=v" pairs, undefined when missing.
Lookup(pairs, k) ==
    LET hit == {i \in 1..Len(pairs) :
                   LET e == IndexOf(pairs[i], <<"=">>, 0)
                   IN  e # -1 /\ SubSeq(pairs[i], 1, e) = k}
        p == pairs[CHOOSE i \in hit : \A j \in hit : j <= i]
    IN  IF hit = {} THEN Undefined
        ELSE Str(Skip(p, IndexOf(p, <<"=">>, 0) + 1))

\* Util.urlToAssArray(url): the metrics keys of the query string.
urlToAssArray(url) ==
    LET q     == IndexOf(url, <<"?">>, 0)
        pairs == IF q = -1 THEN <<>> ELSE Split(Skip(url, q + 1), "&")
    IN  [cw  |-> Lookup(pairs, <<"c","w">>),
         ch  |-> Lookup(pairs, <<"c","h">>),
         cb  |-> Lookup(pairs, <<"c","b">>),
         dpi |-> Lookup(pairs, <<"d","p","i">>)]

(***************************************************************************)
(* Image.getMetricsFromBytes                                               *)
(***************************************************************************)
SignatureLen == 8

TypeIHDR == 1229472850

TypeBaSE == 1650545477

TypePHYs == 1883789683

\* Math.round(v / 39.37)
DpiOf(v) == (200 * v + 3937) \div 7874

\* The reads of one loop pass after the chunk's length and type, up to and
\* including the final readInt32 of line 173.
ChunkReads(typ) ==
    CASE typ = TypeIHDR -> <<4, 4, 4, 1, 4>>
      [] typ = TypeBaSE -> <<4, 4>>
      [] typ = TypePHYs -> <<4, 4, 1, 4>>
      [] OTHER          -> <<4>>

\* The chunk type the comparisons of lines 159-167 recognise in the four
\* bytes read as typ, 0 when none.
KnownType(b) ==
    IF ReadsAs(b, TypeIHDR) THEN TypeIHDR
    ELSE IF ReadsAs(b, TypeBaSE) THEN TypeBaSE
    ELSE IF ReadsAs(b, TypePHYs) THEN TypePHYs
    ELSE 0

NoLocals == [width |-> Undefined, height |-> Undefined,
             baseline |-> Undefined, dpi |-> Undefined]

\* A pass that reads the array without removing what it read.
ChunkStepNoConsume(p) == [bytes |-> p.bytes, loc |-> p.loc, ok |-> TRUE]

\* One pass of the while loop (lines 157-173) from parser state p, whose
\* bytes hold at least 4 bytes.
ChunkStep(p) ==
    LET b0   == p.bytes
        b1   == Skip(b0, 4)
        hdr  == ReadAll(b0, <<4, 4>>)
        typ  == KnownType(b1)
        b2   == Skip(b1, 4)
        rest == ReadAll(b2, ChunkReads(typ))
        l    == p.loc
        l2   == CASE typ = TypeIHDR ->
                       [l EXCEPT !.width = Num(UInt32BE(b2)),
                                 !.height = Num(UInt32BE(Skip(b2, 4)))]
                  [] typ = TypeBaSE -> [l EXCEPT !.baseline = Num(UInt32BE(b2))]
                  [] typ = TypePHYs -> [l EXCEPT !.dpi = Num(DpiOf(UInt32BE(b2)))]
                  [] OTHER -> l
    IN  IF ~hdr.ok THEN [bytes |-> hdr.bytes, loc |-> l, ok |-> FALSE]
        ELSE IF ~rest.ok THEN [bytes |-> rest.bytes, loc |-> l, ok |-> FALSE]
        ELSE [bytes |-> rest.bytes, loc |-> l2, ok |-> TRUE]

\* while (bytes.length >= 4), line 156
LoopCond(b) == Len(b) >= 4

\* Lines 176-186: the array returned after the loop, undefined without width.
MetricsOf(l) ==
    IF l.width # Undefined
    THEN [cw |-> l.width, ch |-> l.height, dpi |-> l.dpi,
          cb |-> IF Truthy(l.baseline) THEN l.baseline ELSE Undefined]
    ELSE Undefined

RECURSIVE RunLoop(_)
RunLoop(p) ==
    IF ~p.ok \/ ~LoopCond(p.bytes) THEN p ELSE RunLoop(ChunkStep(p))

\* Line 153: Util.readBytes(bytes, 0, 8)
SkipSignature(b) ==
    LET r == ReadAll(b, <<SignatureLen>>)
    IN  [bytes |-> r.bytes, loc |-> NoLocals, ok |-> r.ok]

\* getMetricsFromBytes(bytes) as a function: the returned array, or the error
\* it ends with.
getMetricsFromBytes(b) ==
    LET p == RunLoop(SkipSignature(b))
    IN  IF p.ok THEN [ok |-> TRUE, ar |-> MetricsOf(p.loc)]
        ELSE [ok |-> FALSE, ar |-> Undefined]

(***************************************************************************)
(* Image.getMetricsFromSvgString                                           *)
(***************************************************************************)
AttrHeight == <<"h","e","i","g","h","t","=","\"">>

AttrWidth == <<"w","i","d","t","h","=","\"">>

AttrBaseline == <<"w","r","s",":","b","a","s","e","l","i","n","e","=","\"">>

\* first = indexOf(name); last = indexOf('"', first + n); substring(first + n, last)
AttrValue(s, name) ==
    LET first == IndexOf(s, name, 0)
        last  == IndexOf(s, <<"\"">>, first + Len(name))
    IN  Substring(s, first + Len(name), last)

\* typeof(width != 'undefined') is the string "boolean" and typeof baseline is
\* "string": both tests pass for every input.
getMetricsFromSvgString(s) ==
    [cw  |-> Str(AttrValue(s, AttrWidth)),
     ch  |-> Str(AttrValue(s, AttrHeight)),
     cb  |-> Str(AttrValue(s, AttrBaseline)),
     dpi |-> Undefined]

(***************************************************************************)
(* Character codes, decodeURIComponent                                     *)
(***************************************************************************)
\* The characters of codes 32..126 (code 96 as the token \x96).
Ascii ==
    <<
      " ","!","\"","#","$","%","&","'","(",")","*","+",",","-",".","/","0","1","2",
      "3","4","5","6","7","8","9",":",";","<","=",">","?","@","A","B","C","D","E",
      "F","G","H","I","J","K","L","M","N","O","P","Q","R","S","T","U","V","W","X",
      "Y","Z","[","\\","]","^","_","\\x96","a","b","c","d","e","f","g","h","i","j","k",
      "l","m","n","o","p","q","r","s","t","u","v","w","x","y","z","{","|","}","~">>

IsAscii(c) == \E i \in 1..Len(Ascii) : Ascii[i] = c

CharCode(c) == (CHOOSE i \in 1..Len(Ascii) : Ascii[i] = c) + 31

\* String.fromCharCode(b); a code outside 32..126 is the token \x<code>.
FromCharCode(b) == IF b >= 32 /\ b <= 126 THEN Ascii[b - 31] ELSE "\\x" \o ToString(b)

HexChars == <<"0","1","2","3","4","5","6","7","8","9","A","B","C","D","E","F">>

IsHex(c) == \E i \in 1..16 : HexChars[i] = c

HexVal(c) == (CHOOSE i \in 1..16 : HexChars[i] = c) - 1

\* s[i] is a "%" followed by two hexadecimal digits.
IsEscape(s, i) == s[i] = "%" /\ i + 2 <= Len(s) /\ IsHex(s[i + 1]) /\ IsHex(s[i + 2])

\* s[i] is one of the two digits of an escape.
InEscape(s, i) == (i > 1 /\ s[i - 1] = "%") \/ (i > 2 /\ s[i - 2] = "%")

\* decodeURIComponent(s): each %XY becomes the character of code 16 X + Y;
\* a "%" not followed by two hexadecimal digits is a URIError.
decodeURIComponent(s) ==
    LET keep == SelectSeq([i \in 1..Len(s) |-> i], LAMBDA i : ~InEscape(s, i))
    IN  IF \E i \in 1..Len(s) : s[i] = "%" /\ ~IsEscape(s, i)
        THEN [ok |-> FALSE, s |-> <<>>]
        ELSE [ok |-> TRUE,
              s |-> [k \in 1..Len(keep) |->
                        IF s[keep[k]] = "%"
                        THEN FromCharCode(16 * HexVal(s[keep[k] + 1]) + HexVal(s[keep[k] + 2]))
                        ELSE s[keep[k]]]]

(***************************************************************************)
(* Image.setImgSize and Image.fixAfterResize                               *)
(***************************************************************************)
Base64Marker == <<"b","a","s","e","6","4",",">>

DataImage == <<"d","a","t","a",":","i","m","a","g","e">>

EmptyStr == Str(<<>>)

PngMetricsBytes == 88

SvgPrefixLen == 32

PngPrefixLen == 22

ReferenceDpi == 96

\* img.src.substr(img.src.indexOf('base64,') + 7, img.src.length), lines 54, 64
Base64Of(src) == Substr(src, IndexOf(src, Base64Marker, 0) + 7, Len(src))

\* Lines 56-59: the decoded bytes as a string.
BytesToString(b) == [i \in 1..Len(b) |-> FromCharCode(b[i])]

\* Lines 46-71: the parser the flags select and its input. kind is
\* "ar" when the metrics array is already there, "bytes" when the loop of
\* getMetricsFromBytes has yet to run, and "throw" when an error is raised.
SelectParser(src, u, jsonResponse, cfg) ==
    IF jsonResponse THEN
        IF cfg.imageFormat = "svg" THEN
            IF cfg.saveMode # "base64"
            THEN [kind |-> "ar", branch |-> "svg", input |-> u,
                  ar |-> getMetricsFromSvgString(u)]
            ELSE LET s == Base64Of(src)
                     d == b64ToByteArray(s, Len(s))
                 IN  IF ~d.ok
                     THEN [kind |-> "throw", branch |-> "svg64", error |-> "InvalidEncoding"]
                     ELSE [kind |-> "ar", branch |-> "svg64", input |-> BytesToString(d.bytes),
                           ar |-> getMetricsFromSvgString(BytesToString(d.bytes))]
        ELSE LET d == b64ToByteArray(Base64Of(src), PngMetricsBytes)
             IN  IF ~d.ok
                 THEN [kind |-> "throw", branch |-> "png", error |-> "InvalidEncoding"]
                 ELSE [kind |-> "bytes", branch |-> "png", input |-> d.bytes]
    ELSE [kind |-> "ar", branch |-> "url", input |-> u, ar |-> urlToAssArray(u)]

\* Lines 79-83: x * 96 / dpi under a truthy dpi, x itself otherwise.
Rescale(x, dpi) == IF Truthy(dpi) THEN Div(Mul(x, Num(ReferenceDpi)), dpi) ELSE x

\* Line 86: "-" + (height - baseline) + "px"
VerticalAlign(height, baseline) ==
    Concat(Concat(Str(<<"-">>), Sub(height, baseline)), Str(<<"p","x">>))

\* Lines 84-86: the three writes.
WriteSize(i, width, height, baseline) ==
    [i EXCEPT !.width = width,
              !.height = height,
              !.style.verticalAlign = VerticalAlign(height, baseline)]

\* Lines 72-86: the image after the metrics array a is applied, and how the
\* call ends. Reading a['cw'] of an undefined array is a TypeError.
ApplyMetrics(i, a) ==
    IF a = Undefined THEN [img |-> i, outcome |-> "TypeError"]
    ELSE IF ~Truthy(a.cw) THEN [img |-> i, outcome |-> "skipped"]
    ELSE [img |-> WriteSize(i, Rescale(a.cw, a.dpi), Rescale(a.ch, a.dpi), Rescale(a.cb, a.dpi)),
          outcome |-> "written"]

\* Lines 94-98: style, width and height removed, then max-width set.
StripSize(i) ==
    [i EXCEPT !.width = Undefined,
              !.height = Undefined,
              !.style = [verticalAlign |-> EmptyStr, maxWidth |-> Str(<<"n","o","n","e">>)]]

\* Lines 99-111: the arguments fixAfterResize passes to setImgSize.
ResizeArgs(src, cfg) ==
    IF IndexOf(src, DataImage, 0) # -1 THEN
        IF cfg.imageFormat = "svg" THEN
            LET d == decodeURIComponent(Substring(src, SvgPrefixLen, Len(src)))
            IN  [ok |-> d.ok, uri |-> d.s, jsonResponse |-> TRUE]
        ELSE [ok |-> TRUE, uri |-> Substring(src, PngPrefixLen, Len(src)), jsonResponse |-> TRUE]
    ELSE [ok |-> TRUE, uri |-> src, jsonResponse |-> FALSE]

(***************************************************************************)
(* The images and responses the handlers are given                         *)
(***************************************************************************)
Signature == <<137, 80, 78, 71, 13, 10, 26, 10>>

\* The CRC trailer of a chunk; no code reads its value.
Crc == <<17, 34, 51, 68>>

\* Chunk types the parser does not know: "IDAT", "IEND", "tEXt".
TypeIDAT == UInt32BE(<<73, 68, 65, 84>>)

TypeIEND == UInt32BE(<<73, 69, 78, 68>>)

TypeTEXt == UInt32BE(<<116, 69, 88, 116>>)

Chunk(typ, body) == U32Bytes(Len(body)) \o U32Bytes(typ) \o body \o Crc

ChunkIHDR(w, h) == Chunk(TypeIHDR, U32Bytes(w) \o U32Bytes(h) \o <<8, 6, 0, 0, 0>>)

ChunkBaSE(b) == Chunk(TypeBaSE, U32Bytes(b))

ChunkPHYs(v) == Chunk(TypePHYs, U32Bytes(v) \o U32Bytes(v) \o <<1>>)

Filler(k) == [i \in 1..k |-> 7]

RECURSIVE Repeat(_, _)
Repeat(s, k) == IF k = 0 THEN <<>> ELSE s \o Repeat(s, k - 1)

\* Longest body of the IDAT chunk of a service image.
MaxData == 2

\* Longest body of a tEXt chunk placed before the metrics chunks.
MaxText == 2

\* Most empty chunks placed between baSE and pHYs.
MaxPad == 3

Dims == {<<120, 25>>, <<0, 40>>}

BaselineChunks == {<<>>} \cup {ChunkBaSE(b) : b \in {0, 10, 30}}

PhysChunks == {<<>>} \cup {ChunkPHYs(v) : v \in {10, 7559}}

\* Signature, IHDR and the optional baSE and pHYs, nothing else.
PlainPngs ==
    {Signature \o ChunkIHDR(d[1], d[2]) \o b \o p :
        d \in Dims, b \in BaselineChunks, p \in PhysChunks}

\* What the rendering service sends: the three metrics chunks, then the
\* image data and the end chunk.
ServicePngs ==
    {Signature \o ChunkIHDR(120, 40) \o ChunkBaSE(30) \o ChunkPHYs(v)
        \o Chunk(TypeIDAT, Filler(k)) \o Chunk(TypeIEND, <<>>) :
        v \in {3780}, k \in 0..MaxData}

\* A tEXt chunk between IHDR and the other metrics chunks.
TextPngs ==
    {Signature \o ChunkIHDR(120, 40) \o Chunk(TypeTEXt, Filler(k))
        \o ChunkBaSE(30) \o ChunkPHYs(7559) : k \in 0..MaxText}

\* Empty chunks between baSE and pHYs.
PaddedPngs ==
    {Signature \o ChunkIHDR(120, 40) \o ChunkBaSE(30)
        \o Repeat(Chunk(TypeTEXt, <<>>), k) \o ChunkPHYs(7559) : k \in 1..MaxPad}

\* Payloads without an IHDR chunk: empty, cut short, no chunk, other chunks,
\* the head of a JPEG file.
ForeignPayloads ==
    {<<>>, SubSeq(Signature, 1, 3), Signature,
     Signature \o Chunk(TypeIDAT, <<>>) \o Chunk(TypeIEND, <<>>),
     <<255, 216, 255, 224, 0, 16, 74, 70, 73, 70, 0, 1>>}

RasterPayloads == PlainPngs \cup ServicePngs \cup TextPngs \cup PaddedPngs \cup ForeignPayloads

\* The i-th byte of b, 0 past its end.
ByteAt(b, i) == IF i <= Len(b) THEN b[i] ELSE 0

\* The c-th character of the standard base64 text of b, "=" where the last
\* group runs past the bytes.
B64Char(b, c) ==
    LET g == (c - 1) \div 4
        r == (c - 1) % 4
        x == ByteAt(b, 3 * g + 1) * 65536 + ByteAt(b, 3 * g + 2) * 256 + ByteAt(b, 3 * g + 3)
    IN  IF r >= 2 /\ 3 * g + r > Len(b) THEN "="
        ELSE CASE r = 0 -> B64Alphabet[(x \div 262144) + 1]
               [] r = 1 -> B64Alphabet[((x \div 4096) % 64) + 1]
               [] r = 2 -> B64Alphabet[((x \div 64) % 64) + 1]
               [] r = 3 -> B64Alphabet[(x % 64) + 1]

\* Standard base64 with padding.
B64Encode(b) == [c \in 1..(4 * ((Len(b) + 2) \div 3)) |-> B64Char(b, c)]

Unreserved == {"-", "_", ".", "!", "~", "*", "'", "(", ")"}

IsAlnum(c) ==
    LET n == CharCode(c)
    IN  (n >= 48 /\ n <= 57) \/ (n >= 65 /\ n <= 90) \/ (n >= 97 /\ n <= 122)

\* encodeURIComponent of one character of codes 32..126.
EncodeChar(c) ==
    IF c \in Unreserved \/ IsAlnum(c) THEN <<c>>
    ELSE <<"%", HexChars[(CharCode(c) \div 16) + 1], HexChars[(CharCode(c) % 16) + 1]>>

RECURSIVE encodeURIComponent(_)
encodeURIComponent(s) ==
    IF s = <<>> THEN <<>>
    ELSE IF Len(s) = 1 THEN EncodeChar(s[1])
    ELSE encodeURIComponent(SubSeq(s, 1, Len(s) \div 2))
            \o encodeURIComponent(SubSeq(s, (Len(s) \div 2) + 1, Len(s)))

StringToBytes(s) == [i \in 1..Len(s) |-> CharCode(s[i])]

PngPrefix == <<"d","a","t","a",":","i","m","a","g","e","/","p","n","g",";","b","a","s","e","6","4",",">>

SvgUtf8Prefix == <<"d","a","t","a",":","i","m","a","g","e","/","s","v","g","+","x","m","l",";","c","h","a","r","s","e","t","=","u","t","f","8",",">>

SvgBase64Prefix == <<"d","a","t","a",":","i","m","a","g","e","/","s","v","g","+","x","m","l",";","b","a","s","e","6","4",",">>

Quote == <<"\"">>

\* An attribute of the svg element, or nothing when the value is -1.
Attr(name, v) == IF v = -1 THEN <<>> ELSE <<" ">> \o name \o NatToStr(v) \o Quote

\* <svg height="h" width="w" wrs:baseline="b">, each attribute optional.
SvgText(h, w, b) ==
    <<"<","s","v","g">> \o Attr(AttrHeight, h) \o Attr(AttrWidth, w) \o Attr(AttrBaseline, b)
        \o <<">">>

SvgTexts == {SvgText(40, w, b) : w \in {-1, 120}, b \in {-1, 30, 60}}

\* An image the user inserted: its text is not URI-encoded.
ForeignSvg == <<"<","s","v","g"," ","w","i","d","t","h","=","\"","1","0","0","%","\"",">">>

UrlBase == <<"h","t","t","p",":","/","/","h","/","i","?","f","=","1">>

Pair(key, v) == IF v = -1 THEN <<>> ELSE <<"&">> \o key \o <<"=">> \o NatToStr(v)

\* http://h/i?f=1&cw=..&ch=..&cb=..&dpi=.., each metrics key optional.
LegacyUrl(w, h, b, dpi) ==
    UrlBase \o Pair(<<"c","w">>, w) \o Pair(<<"c","h">>, h) \o Pair(<<"c","b">>, b)
        \o Pair(<<"d","p","i">>, dpi)

LegacyUrls ==
    {LegacyUrl(w, 50, b, -1) : w \in {-1, 100}, b \in {-1, 40, 60}}
        \cup {LegacyUrl(100, 50, 40, 192)}
        \cup {<<"h","t","t","p",":","/","/","h","/","i",".","p","n","g">>}

PngConfigs == [imageFormat : {"png"}, saveMode : {"base64", "xml"}]

\* An image of the document, the response URI the service gave for it and
\* the configurations it is met under.
Scenarios ==
    {[src |-> PngPrefix \o B64Encode(b), uri |-> PngPrefix \o B64Encode(b),
      configs |-> {[imageFormat |-> "png", saveMode |-> "xml"]}] : b \in RasterPayloads}
        \cup {[src |-> SvgUtf8Prefix \o encodeURIComponent(s), uri |-> s,
               configs |-> {[imageFormat |-> "svg", saveMode |-> "xml"]}] : s \in SvgTexts}
        \cup {[src |-> SvgBase64Prefix \o B64Encode(StringToBytes(s)), uri |-> s,
               configs |-> {[imageFormat |-> "svg", saveMode |-> "base64"]}] : s \in SvgTexts}
        \cup {[src |-> SvgUtf8Prefix \o ForeignSvg, uri |-> ForeignSvg,
               configs |-> {[imageFormat |-> "svg", saveMode |-> "xml"]}]}
        \cup {[src |-> u, uri |-> u,
               configs |-> {[imageFormat |-> "svg", saveMode |-> "xml"]} \cup PngConfigs] :
                 u \in LegacyUrls}

\* The size and style of the image before any call: never sized, or resized
\* by the user.
InitialSizes ==
    {[width |-> Undefined, height |-> Undefined,
      style |-> [verticalAlign |-> EmptyStr, maxWidth |-> EmptyStr]],
     [width |-> Num(200), height |-> Num(80),
      style |-> [verticalAlign |-> Str(<<"-","7","p","x">>), maxWidth |-> EmptyStr]]}

(***************************************************************************)
(* The state machine                                                       *)
(***************************************************************************)
NoCall == [fn |-> "none", branch |-> "none", jsonResponse |-> FALSE]

Init ==
    /\ \E sc \in Scenarios, sz \in InitialSizes :
          /\ img = [src |-> sc.src, width |-> sz.width, height |-> sz.height, style |-> sz.style]
          /\ response = sc.uri
          /\ config \in sc.configs
    /\ pc = "idle"
    /\ call = NoCall
    /\ bytes = <<>>
    /\ input = <<>>
    /\ loc = NoLocals
    /\ ar = Undefined
    /\ outcome = "none"
    /\ pre = img

\* setImgSize(i, u, jsonResponse) entered by handler fn, up to the parser's
\* result or the first pass of the loop of getMetricsFromBytes.
Enter(i, u, jsonResponse, fn) ==
    LET sel == SelectParser(i.src, u, jsonResponse, config)
        sig == SkipSignature(sel.input)
    IN  /\ pre' = img
        /\ img' = i
        /\ call' = [fn |-> fn, branch |-> sel.branch, jsonResponse |-> jsonResponse]
        /\ CASE sel.kind = "throw" ->
                  /\ pc' = "idle"
                  /\ outcome' = sel.error
                  /\ bytes' = <<>> /\ input' = <<>> /\ loc' = NoLocals /\ ar' = Undefined
             [] sel.kind = "ar" ->
                  /\ pc' = "parsed"
                  /\ outcome' = "running"
                  /\ ar' = sel.ar
                  /\ input' = sel.input
                  /\ bytes' = <<>> /\ loc' = NoLocals
             [] sel.kind = "bytes" ->
                  /\ input' = sel.input
                  /\ bytes' = sig.bytes
                  /\ loc' = NoLocals
                  /\ ar' = Undefined
                  /\ pc' = IF sig.ok THEN "loop" ELSE "idle"
                  /\ outcome' = IF sig.ok THEN "running" ELSE "OutOfBounds"

\* Image.setImgSize(img, uri, jsonResponse) called with the service's response.
SetImgSize(jsonResponse) ==
    /\ pc = "idle"
    /\ Enter(img, response, jsonResponse, "setImgSize")
    /\ UNCHANGED <<config, response>>

\* Image.fixAfterResize(img)
FixAfterResize ==
    /\ pc = "idle"
    /\ LET args == ResizeArgs(img.src, config)
       IN  IF args.ok
           THEN Enter(StripSize(img), args.uri, args.jsonResponse, "fixAfterResize")
           ELSE /\ pre' = img
                /\ img' = StripSize(img)
                /\ call' = [fn |-> "fixAfterResize", branch |-> "none", jsonResponse |-> TRUE]
                /\ pc' = "idle"
                /\ outcome' = "URIError"
                /\ bytes' = <<>> /\ input' = <<>> /\ loc' = NoLocals /\ ar' = Undefined
    /\ UNCHANGED <<config, response>>

\* One pass of the while loop of getMetricsFromBytes.
ChunkIteration ==
    /\ pc = "loop"
    /\ LoopCond(bytes)
    /\ LET p == ChunkStep([bytes |-> bytes, loc |-> loc, ok |-> TRUE])
       IN  /\ bytes' = p.bytes
           /\ loc' = p.loc
           /\ pc' = IF p.ok THEN "loop" ELSE "idle"
           /\ outcome' = IF p.ok THEN outcome ELSE "OutOfBounds"
    /\ UNCHANGED <<img, config, response, call, input, ar, pre>>

\* The loop ends and getMetricsFromBytes returns.
LoopExit ==
    /\ pc = "loop"
    /\ ~LoopCond(bytes)
    /\ ar' = MetricsOf(loc)
    /\ pc' = "parsed"
    /\ UNCHANGED <<img, config, response, call, bytes, input, loc, outcome, pre>>

\* Lines 72-86 of setImgSize, after the parser returned.
Normalize ==
    /\ pc = "parsed"
    /\ img' = ApplyMetrics(img, ar).img
    /\ outcome' = ApplyMetrics(img, ar).outcome
    /\ pc' = "idle"
    /\ UNCHANGED <<config, response, call, bytes, input, loc, ar, pre>>

Next ==
    \/ \E jsonResponse \in BOOLEAN : SetImgSize(jsonResponse)
    \/ FixAfterResize
    \/ ChunkIteration
    \/ LoopExit
    \/ Normalize

Spec == Init /\ [][Next]_vars

\* The loop of getMetricsFromBytes runs on once entered: the code is
\* synchronous and single-threaded, so a pass or the exit that can be taken
\* is taken.
FairSpec == Spec /\ WF_vars(ChunkIteration) /\ WF_vars(LoopExit)

(***************************************************************************)
(* The PNG layout of a byte stream, by the declared chunk lengths          *)
(***************************************************************************)
\* The chunks of b from offset pos on, each with its offset, declared length
\* and type bytes, as long as whole chunks follow.
RECURSIVE ChunkTable(_, _)
ChunkTable(b, pos) ==
    IF Len(b) < pos + 12 \/ b[pos + 1] >= 128 THEN <<>>
    ELSE LET L == UInt32BE(SubSeq(b, pos + 1, pos + 4))
         IN  IF Len(b) < pos + 12 + L THEN <<>>
             ELSE <<[at |-> pos, len |-> L, typ |-> SubSeq(b, pos + 5, pos + 8),
                     body |-> SubSeq(b, pos + 9, pos + 8 + L)]>>
                  \o ChunkTable(b, pos + 12 + L)

HasSignature(b) == Len(b) >= SignatureLen /\ SubSeq(b, 1, SignatureLen) = Signature

PngChunks(b) == IF HasSignature(b) THEN ChunkTable(b, SignatureLen) ELSE <<>>

IsType(c, t) == c.typ = U32Bytes(t)

\* The bytes of b the chunk table covers: signature and whole chunks.
CoveredLen(b) ==
    LET cs == PngChunks(b)
    IN  IF cs = <<>> THEN SignatureLen ELSE cs[Len(cs)].at + 12 + cs[Len(cs)].len

\* The whole payload the image carries after "base64,".
FullPayload(src) == b64ToByteArray(Base64Of(src), Len(src)).bytes

(***************************************************************************)
(* C1                                                                      *)
(***************************************************************************)
\* The stream is exactly signature, IHDR and baSE.
IsIhdrBaseStream(b) ==
    LET cs == PngChunks(b)
    IN  /\ Len(cs) = 2
        /\ CoveredLen(b) = Len(b)
        /\ IsType(cs[1], TypeIHDR) /\ cs[1].len = 13
        /\ IsType(cs[2], TypeBaSE) /\ cs[2].len = 4

\* C1: when getMetricsFromBytes has parsed a stream made of the signature, an
\* IHDR chunk carrying width and height and a baSE chunk carrying baseline
\* (baseline 0 included), the returned cw, ch and cb are exactly the encoded
\* width, height and baseline.
C1_RoundTrip ==
    (pc = "parsed" /\ call.branch = "png" /\ IsIhdrBaseStream(input)) =>
        LET cs == PngChunks(input)
        IN  /\ ar # Undefined
            /\ ar.cw = Num(UInt32BE(cs[1].body))
            /\ ar.ch = Num(UInt32BE(Skip(cs[1].body, 4)))
            /\ ar.cb = Num(UInt32BE(cs[2].body))

(***************************************************************************)
(* C2                                                                      *)
(***************************************************************************)
\* The chunks of the parsed bytes of the given type.
ChunksOfType(b, t) == SelectSeq(PngChunks(b), LAMBDA c : IsType(c, t))

\* The value x scaled to the reference resolution under dpi d, x itself when
\* d is 0.
Scaled(x, d) == IF d = 0 THEN Num(x) ELSE Rat(x * ReferenceDpi, d)

\* C2: for parsed bytes that hold an IHDR chunk and a pHYs chunk of value v,
\* the parsed dpi is round(v / 39.37), and setImgSize writes width and
\* height multiplied by 96 / dpi when that dpi is not 0 and unchanged when it
\* is 0.
C2_DpiNormalization ==
    (/\ call.branch = "png"
     /\ ChunksOfType(input, TypeIHDR) # <<>>
     /\ ChunksOfType(input, TypePHYs) # <<>>) =>
        LET ihdr == ChunksOfType(input, TypeIHDR)[1].body
            d    == DpiOf(UInt32BE(ChunksOfType(input, TypePHYs)[1].body))
        IN  /\ pc = "parsed" => (ar # Undefined /\ ar.dpi = Num(d))
            /\ (pc = "idle" /\ outcome = "written") =>
                  /\ img.width = Scaled(UInt32BE(ihdr), d)
                  /\ img.height = Scaled(UInt32BE(Skip(ihdr, 4)), d)

(***************************************************************************)
(* C3                                                                      *)
(***************************************************************************)
\* The image as setImgSize found it: fixAfterResize strips it first.
AtEntry == IF call.fn = "fixAfterResize" THEN StripSize(pre) ELSE pre

InSvgBranch == call.branch \in {"svg", "svg64"}

\* The parser was given the text of an svg element.
IsSvgText(s) == Len(s) >= 4 /\ SubSeq(s, 1, 4) = <<"<","s","v","g">>

\* C3: for an SVG text without a width=" attribute getMetricsFromSvgString
\* reports no usable cw, and setImgSize returns without writing width,
\* height or vertical-align.
C3_SvgNoWidth ==
    (InSvgBranch /\ IsSvgText(input) /\ IndexOf(input, AttrWidth, 0) = -1) =>
        /\ pc = "parsed" => ~Truthy(ar.cw)
        /\ (pc = "idle" /\ outcome \in {"written", "skipped"}) =>
              (outcome = "skipped" /\ img = AtEntry)

(***************************************************************************)
(* C4                                                                      *)
(***************************************************************************)
\* C4: when setImgSize is given a raster payload whose bytes carry the
\* signature but no IHDR chunk the parser recognises, the call ends as a
\* silent no-op: no error, and the image as it was.
C4_NoMetricsNoOp ==
    (/\ pc = "idle"
     /\ call.fn = "setImgSize"
     /\ call.branch = "png"
     /\ HasSignature(input)
     /\ ~LoopCond(bytes)
     /\ loc.width = Undefined) =>
        (outcome = "skipped" /\ img = pre)

(***************************************************************************)
(* C5                                                                      *)
(***************************************************************************)
\* Width is found and baseline is absent in the branch taken.
BaselineAbsent ==
    IF InSvgBranch
    THEN /\ IsSvgText(input)
         /\ IndexOf(input, AttrWidth, 0) # -1
         /\ IndexOf(input, AttrBaseline, 0) = -1
    ELSE ar # Undefined /\ ar.cb = Undefined

\* C5: when width is found and baseline is absent, setImgSize writes width
\* and height and leaves vertical-align as it was when the call began.
C5_BaselineAbsent ==
    (pc = "idle" /\ outcome = "written" /\ BaselineAbsent) =>
        /\ img.width = Rescale(ar.cw, ar.dpi)
        /\ img.height = Rescale(ar.ch, ar.dpi)
        /\ img.style.verticalAlign = AtEntry.style.verticalAlign

(***************************************************************************)
(* C6                                                                      *)
(***************************************************************************)
IsNumber(v) == ToNumber(v).t = "num"

EndsWithPx(s) == Len(s) > 2 /\ SubSeq(s, Len(s) - 1, Len(s)) = <<"p","x">>

\* The number of pixels the CSS length s gives, NaN when s is no length.
PxValue(s) == IF EndsWithPx(s) THEN StringToNumber(SubSeq(s, 1, Len(s) - 2)) ELSE NaN

\* C6: when height and baseline are found, the vertical-align setImgSize
\* writes is a well-formed length of -(height - baseline) pixels, negative or
\* zero.
C6_VerticalOffset ==
    (pc = "idle" /\ outcome = "written" /\ IsNumber(ar.ch) /\ IsNumber(ar.cb)) =>
        /\ PxValue(img.style.verticalAlign.s)
              = Sub(Rescale(ar.cb, ar.dpi), Rescale(ar.ch, ar.dpi))
        /\ PxValue(img.style.verticalAlign.s).n <= 0

(***************************************************************************)
(* C7                                                                      *)
(***************************************************************************)
Geometry(i) == <<i.width, i.height, i.style.verticalAlign>>

\* The stripped image sized from the metrics getMetricsFromBytes finds in the
\* bytes b, left alone when it finds none.
DirectSizing(i, b) ==
    IF getMetricsFromBytes(b).ok /\ getMetricsFromBytes(b).ar # Undefined
    THEN ApplyMetrics(i, getMetricsFromBytes(b).ar).img
    ELSE i

\* C7: with raster format configured and a src of "data:image/png;base64,"
\* and a payload, fixAfterResize ends with the width, height and
\* vertical-align that parsing the payload's decoded bytes directly and
\* normalizing them gives.
C7_ResizeEquivalence ==
    (/\ pc = "idle"
     /\ call.fn = "fixAfterResize"
     /\ call.branch = "png"
     /\ SubSeq(img.src, 1, Clamp(PngPrefixLen, 0, Len(img.src))) = PngPrefix) =>
        Geometry(img) = Geometry(DirectSizing(StripSize(pre), FullPayload(img.src)))

(***************************************************************************)
(* C8                                                                      *)
(***************************************************************************)
\* C8: the chunk loop of getMetricsFromBytes stops on every byte sequence:
\* each pass that stays in the loop leaves fewer bytes than it found, and a
\* run that is in the loop eventually leaves it.
C8_Termination ==
    /\ [][(pc = "loop" /\ pc' = "loop") => Len(bytes') < Len(bytes)]_vars
    /\ [](pc = "loop" => <>(pc # "loop"))

\* The loop ran over a stream of several chunks and ended with fewer than 4
\* bytes left.
C8_Witness ==
    /\ pc = "parsed"
    /\ call.branch = "png"
    /\ Len(input) - Len(bytes) >= 70
    /\ Len(bytes) < 4

(***************************************************************************)
(* C9                                                                      *)
(***************************************************************************)
\* The read position: the bytes of the input already consumed.
Position == Len(input) - Len(bytes)

\* The chunk of the input that starts at the read position, if any.
ChunkAtPosition == {i \in 1..Len(PngChunks(input)) : PngChunks(input)[i].at = Position}

\* C9: a pass of the loop that starts at a chunk of declared length L
\* advances the read position by exactly 12 + L bytes.
C9_ChunkSync ==
    [][(pc = "loop" /\ LoopCond(bytes) /\ ChunkAtPosition # {} /\ pc' = "loop") =>
          \A i \in ChunkAtPosition :
              Len(bytes) - Len(bytes') = 12 + PngChunks(input)[i].len]_vars

(***************************************************************************)
(* C10                                                                     *)
(***************************************************************************)
\* The payload the rendering service sends: signature, IHDR of length 13,
\* baSE of length 4, pHYs of length 9, then further whole chunks.
IsServicePng(b) ==
    LET cs == PngChunks(b)
    IN  /\ Len(cs) > 3
        /\ CoveredLen(b) = Len(b)
        /\ IsType(cs[1], TypeIHDR) /\ cs[1].len = 13
        /\ IsType(cs[2], TypeBaSE) /\ cs[2].len = 4
        /\ IsType(cs[3], TypePHYs) /\ cs[3].len = 9

\* C10: on a well-formed service PNG cut to its first 88 bytes,
\* getMetricsFromBytes never reads past the end of the bytes it was given.
C10_NoOverRead ==
    (call.branch = "png" /\ IsServicePng(FullPayload(img.src))) => outcome # "OutOfBounds"

====
